---- MODULE Spec2Model ----
(***************************************************************************)
(* Model of src/meter.rs: generic Meter / MeterEffect components and the   *)
(* Bevy system MeterEffect::apply_effect.                                  *)
(*                                                                         *)
(* The world is a set of entities; each entity may carry one Meter<M> per  *)
(* meter marker M and one MeterEffect<E> per effect marker E.  The host    *)
(* (Bevy) spawns the entities, removes components and runs the systems;    *)
(* a system runs with exclusive access to the components it queries, so    *)
(* one run of apply_effect is one atomic step.                             *)
(*                                                                         *)
(* The field type is a fixed-width signed integer; `+=` on it either       *)
(* panics (overflow checks on, the default of a debug build) or wraps      *)
(* (overflow checks off, the default of a release build).                  *)
(***************************************************************************)
EXTENDS Integers, Sequences, FiniteSets, TLC

\* ------------------------------------------------------------------ bounds
\* Width in bits of MeterMarker::Field, scaled down from i64 / i32.
FieldBits == 8
\* Number of entities in the world.
NumEntities == 2
\* Number of system runs (invocations of apply_effect) in one behaviour.
MaxRuns == 3

\* ------------------------------------------------------------- field type
Pow2(n) == 2 ^ n

MinField == -Pow2(FieldBits - 1)

MaxField == Pow2(FieldBits - 1) - 1

Field == MinField..MaxField

\* Two's-complement wrap of an out-of-range sum back into Field.
Wrap(x) == ((x - MinField) % Pow2(FieldBits)) + MinField

\* ---------------------------------------------------------------- markers
MeterKinds == {"Health", "Mana"}

EffectKinds == {"FireDamage", "Poison", "ManaBurn"}

\* Faulty variant of Marker: every effect marker declares the mana marker as its target.
MarkerMana(E) == "Mana"

\* MeterEffectMarker::Marker: the meter kind an effect kind targets.
Marker(E) == IF E = "ManaBurn" THEN "Mana" ELSE "Health"

\* ------------------------------------------------------------- components
None == <<>>

Some(x) == <<x>>

\* Faulty variant of new_from_max: the meter starts empty instead of full.
new_from_max_empty(max) == [max |-> max, current |-> 0]

\* Meter::new_from_max

new_from_max(max) == [max |-> max, current |-> max]

\* MeterEffect::new
new(amount) == [amount |-> amount]

Entities == 1..NumEntities

VARIABLES
    meter,            \* [Entities -> [MeterKinds -> Option<Meter>]]
    effect,           \* [Entities -> [EffectKinds -> Option<MeterEffect>]]
    overflow_checks,  \* build profile: TRUE = `+=` panics on overflow
    panicked,         \* a system run has panicked (the app is gone)
    panic_entity,     \* the entity whose update panicked, 0 if none
    meter0,           \* the meters as spawned
    effect0,          \* the effects as spawned
    started,          \* [EffectKinds -> Nat]: runs of apply_effect<E> begun
    completed,        \* [EffectKinds -> Nat]: runs that returned
    newArg,           \* argument of the last Meter::new_from_max call
    newRet            \* its result

vars == <<meter, effect, overflow_checks, panicked, panic_entity, meter0,
          effect0, started, completed, newArg, newRet>>

world == <<meter, effect, overflow_checks, panicked, panic_entity, meter0,
           effect0, started, completed>>

\* -------------------------------------------------------------- spawning
\* A bundle handed to commands.spawn(...): the components of one entity.
Bundle(h, m, f, p, b) ==
    [meters  |-> [M \in MeterKinds |->
                    IF M = "Health" THEN h ELSE m],
     effects |-> [E \in EffectKinds |->
                    IF E = "FireDamage" THEN f
                    ELSE IF E = "Poison" THEN p ELSE b]]

Bundles ==
    { Bundle(Some(new_from_max(100)), None, Some(new(-5)), None, None),
      Bundle(Some(new_from_max(MaxField)), None, Some(new(1)), Some(new(-1)), None),
      Bundle(Some(new_from_max(3)), Some(new_from_max(50)), Some(new(-5)), None, None),
      Bundle(None, Some(new_from_max(50)), Some(new(-5)), None, None),
      Bundle(Some(new_from_max(3)), None, Some(new(1)), Some(new(-1)), None),
      Bundle(Some(new_from_max(100)), Some(new_from_max(50)), None, None, Some(new(-5))),
      Bundle(Some(new_from_max(MinField)), None, None, Some(new(-1)), None) }

Init ==
    /\ \E spawn \in [Entities -> Bundles] :
          /\ meter = [e \in Entities |-> spawn[e].meters]
          /\ effect = [e \in Entities |-> spawn[e].effects]
    /\ overflow_checks \in BOOLEAN
    /\ panicked = FALSE
    /\ panic_entity = 0
    /\ meter0 = meter
    /\ effect0 = effect
    /\ started = [E \in EffectKinds |-> 0]
    /\ completed = [E \in EffectKinds |-> 0]
    /\ newArg = 0
    /\ newRet = None

\* ------------------------------------------------------------ the system
\* `meter.current += effect.amount` on the primitive integer type.
AddAssign(current, amount) ==
    LET sum == current + amount IN
    IF sum \in Field THEN [val |-> sum, panic |-> FALSE]
    ELSE IF overflow_checks THEN [val |-> current, panic |-> TRUE]
    ELSE [val |-> Wrap(sum), panic |-> FALSE]

\* Faulty variant of QueryItems: the query keeps yielding an effect after the host removed it.
QueryItemsStale(E) ==
    { [entity |-> e, meter |-> meter[e][Marker(E)][1], effect |-> effect0[e][E][1]] :
        e \in { x \in Entities : meter[x][Marker(E)] # None /\ effect0[x][E] # None } }

\* Faulty variant of QueryItems: the query matches on the effect alone and supplies a default
\* meter where the entity has none.
QueryItemsOrDefault(E) ==
    { [entity |-> e,
       meter  |-> IF meter[e][Marker(E)] # None THEN meter[e][Marker(E)][1]
                  ELSE new_from_max(0),
       effect |-> effect[e][E][1]] :
        e \in { x \in Entities : effect[x][E] # None } }

\* The items MeterEffectQuery<E> yields: the entities that carry both a
\* Meter<E::Marker> and a MeterEffect<E>, with the two components.
QueryItems(E) ==
    { [entity |-> e, meter |-> meter[e][Marker(E)][1], effect |-> effect[e][E][1]] :
        e \in { x \in Entities : meter[x][Marker(E)] # None /\ effect[x][E] # None } }

\* Faulty variant of LoopBody: the loop body consumes the effect once it is applied.
LoopBodyConsume(item) ==
    LET s == AddAssign(item.meter.current, item.effect.amount) IN
    [meter  |-> [item.meter EXCEPT !.current = s.val],
     effect |-> [item.effect EXCEPT !.amount = 0],
     panic  |-> s.panic]

\* The body of the for loop, on one query item.
LoopBody(item) ==
    LET s == AddAssign(item.meter.current, item.effect.amount) IN
    [meter  |-> [item.meter EXCEPT !.current = s.val],
     effect |-> item.effect,
     panic  |-> s.panic]

\* The orders in which query.iter_mut() may yield a set of items.
Orders(S) ==
    { s \in [1..Cardinality(S) -> S] : \A i, j \in 1..Cardinality(S) : s[i] = s[j] => i = j }

\* The for loop from item i on; acc is the world so far.  A panic unwinds
\* out of the loop: the items not yet visited stay as they were.
RECURSIVE RunPass(_, _, _, _)
RunPass(E, items, i, acc) ==
    IF i > Len(items) THEN acc
    ELSE LET it == items[i]
             r  == LoopBody(it)
         IN IF r.panic
            THEN [acc EXCEPT !.panic = it.entity]
            ELSE RunPass(E, items, i + 1,
                   [meter  |-> [acc.meter EXCEPT ![it.entity][Marker(E)] = Some(r.meter)],
                    effect |-> [acc.effect EXCEPT ![it.entity][E] = Some(r.effect)],
                    panic  |-> 0])

TotalStarted == started["FireDamage"] + started["Poison"] + started["ManaBurn"]

\* One run of the system MeterEffect::<E>::apply_effect.
apply_effect(E) ==
    /\ ~panicked
    /\ TotalStarted < MaxRuns
    /\ \E items \in Orders(QueryItems(E)) :
          LET r == RunPass(E, items, 1, [meter |-> meter, effect |-> effect, panic |-> 0]) IN
          /\ meter' = r.meter
          /\ effect' = r.effect
          /\ panicked' = (r.panic # 0)
          /\ panic_entity' = r.panic
          /\ completed' = IF r.panic # 0 THEN completed
                          ELSE [completed EXCEPT ![E] = @ + 1]
    /\ started' = [started EXCEPT ![E] = @ + 1]
    /\ UNCHANGED <<overflow_checks, meter0, effect0, newArg, newRet>>

\* The host removes the MeterEffect<E> component from entity e.
DetachEffect(e, E) ==
    /\ ~panicked
    /\ effect[e][E] # None
    /\ effect' = [effect EXCEPT ![e][E] = None]
    /\ UNCHANGED <<meter, overflow_checks, panicked, panic_entity, meter0, effect0,
                   started, completed, newArg, newRet>>

Next ==
    \/ \E E \in EffectKinds : apply_effect(E)
    \/ \E e \in Entities, E \in EffectKinds : DetachEffect(e, E)

Spec == Init /\ [][Next]_vars

\* ------------------------------------------------------------ properties
\* The step is a run of apply_effect<E>.
IsRun(E) == started'[E] = started[E] + 1

\* Entity e was spawned with a Meter<E::Marker> and still carries the
\* MeterEffect<E> it was spawned with.
Matched(e, E) == meter0[e][Marker(E)] # None /\ effect[e][E] # None

\* No other effect kind with the same target has run on entity e.
OthersIdle(e, E) ==
    \A E2 \in EffectKinds \ {E} :
        Marker(E2) = Marker(E) => (effect0[e][E2] = None \/ started[E2] = 0)

Current(e, M) == meter[e][M][1].current

Current0(e, M) == meter0[e][M][1].current

Amount(e, E) == effect[e][E][1].amount

\* What n runs of apply_effect<E> make of an entity that is alone in the
\* world: the loop body repeated, up to a panic.
RECURSIVE OwnResult(_, _, _)
OwnResult(c, a, n) ==
    IF n = 0 THEN c
    ELSE LET s == AddAssign(c, a) IN
         IF s.panic THEN c ELSE OwnResult(s.val, a, n - 1)

\* C1 (as stated): on every matched entity, for every initial current c0,
\* every amount a and every n, n invocations of apply_effect with the
\* effect attached throughout leave current = c0 + n*a.
C1_Cumulative ==
    \A e \in Entities, E \in EffectKinds :
        (Matched(e, E) /\ OthersIdle(e, E)) =>
            Current(e, Marker(E)) = Current0(e, Marker(E)) + started[E] * Amount(e, E)

\* C2: Meter::new_from_max(m) returns, for every m of the field type
\* (zero and negatives included), a meter with current = m and max = m.
C2_NewFromMax ==
    newRet # None => newRet = Some([max |-> newArg, current |-> newArg])

\* C2 witness: the constructor has returned for a negative maximum.
C2_Witness == newRet # None /\ newArg < 0

\* C3 (as stated): apply_effect never panics, whatever the meter's current
\* and the effect's amount, also when their sum leaves the field type.
C3_Total == ~panicked

\* C4: a run of apply_effect<E> leaves the meter of an entity that does not
\* carry a MeterEffect<E> (it was detached) as it was, and no step changes
\* a meter whose entity carries no effect targeting it.
C4_DetachedUnchanged ==
    [][\A e \in Entities :
          /\ \A E \in EffectKinds :
                (IsRun(E) /\ effect[e][E] = None) =>
                    meter'[e][Marker(E)] = meter[e][Marker(E)]
          /\ \A M \in MeterKinds :
                (\A E \in EffectKinds : Marker(E) = M => effect[e][E] = None) =>
                    meter'[e][M] = meter[e][M]]_vars

\* C4 witness: max 100, effect -5, two runs (95, 90), the effect detached,
\* a third run: current is still 90.
C4_Witness ==
    \E e \in Entities :
        /\ meter0[e]["Health"] = Some(new_from_max(100))
        /\ effect0[e]["FireDamage"] = Some(new(-5))
        /\ effect[e]["FireDamage"] = None
        /\ completed["FireDamage"] = 3
        /\ Current(e, "Health") = 90

\* C5: a run of apply_effect<E> skips an entity that carries a
\* MeterEffect<E> but no meter of E's target kind: none of the entity's
\* components changes, the entity's update is not what panics, and a run
\* that matches no entity at all does not panic.
C5_UnmatchedSkipped ==
    [][\A e \in Entities, E \in EffectKinds :
          (IsRun(E) /\ effect[e][E] # None /\ meter[e][Marker(E)] = None) =>
              /\ meter'[e] = meter[e]
              /\ effect'[e] = effect[e]
              /\ panic_entity' # e
              /\ (QueryItems(E) = {} => ~panicked')]_vars

\* C5 witness: a FireDamage run has returned in a world where an entity
\* carries FireDamage and a mana meter but no health meter.
C5_Witness ==
    \E e \in Entities :
        /\ effect[e]["FireDamage"] # None
        /\ meter[e]["Health"] = None
        /\ meter[e]["Mana"] = Some(new_from_max(50))
        /\ completed["FireDamage"] >= 1

\* C6: a run of an effect that targets health (FireDamage, Poison) leaves
\* every mana meter, current and max, as it was, and a run of an effect
\* that targets mana (ManaBurn) leaves every health meter as it was.
C6_OtherKindUnchanged ==
    [][\A e \in Entities :
          /\ (IsRun("FireDamage") \/ IsRun("Poison")) =>
                meter'[e]["Mana"] = meter[e]["Mana"]
          /\ IsRun("ManaBurn") => meter'[e]["Health"] = meter[e]["Health"]]_vars

\* C6 witness: an entity with a health and a mana meter and FireDamage,
\* after a FireDamage run that changed its health.
C6_Witness ==
    \E e \in Entities :
        /\ meter[e]["Health"] # None
        /\ meter[e]["Mana"] # None
        /\ effect[e]["FireDamage"] # None
        /\ completed["FireDamage"] >= 1
        /\ Current(e, "Health") # Current0(e, "Health")
        /\ meter[e]["Mana"] = meter0[e]["Mana"]

\* C7 (as stated): the current of a matched entity after any sequence of
\* runs is what the entity's own initial current and amount give, whatever
\* the other entities carry and in whatever order a run visits them.
C7_Independent ==
    \A e \in Entities, E \in EffectKinds :
        (Matched(e, E) /\ OthersIdle(e, E)) =>
            Current(e, Marker(E)) =
                OwnResult(Current0(e, Marker(E)), Amount(e, E), started[E])

\* C8: a run of apply_effect leaves every effect attached with the amount
\* it had, and every meter's max as it was.
C8_EffectAndMaxKept ==
    [][\A E \in EffectKinds :
          IsRun(E) =>
              /\ effect' = effect
              /\ \A e \in Entities, M \in MeterKinds :
                    meter[e][M] # None =>
                        /\ meter'[e][M] # None
                        /\ meter'[e][M][1].max = meter[e][M][1].max]_vars

\* C8 witness: a run has changed the current of an entity that still
\* carries the effect.
C8_Witness ==
    \E e \in Entities :
        /\ Matched(e, "FireDamage")
        /\ completed["FireDamage"] >= 1
        /\ Current(e, "Health") # Current0(e, "Health")

\* C9 (as stated): from new_from_max(m), a positive amount makes
\* current > max after one invocation, and a negative amount applied often
\* enough (n * |a| > m >= 0) makes current < 0.
C9_NoBounds ==
    \A e \in Entities, E \in EffectKinds :
        (Matched(e, E) /\ OthersIdle(e, E)) =>
            LET m == meter0[e][Marker(E)][1].max
                a == Amount(e, E)
                n == started[E]
            IN /\ (a > 0 /\ n = 1) => Current(e, Marker(E)) > m
               /\ (a < 0 /\ m >= 0 /\ n * (-a) > m) => Current(e, Marker(E)) < 0

\* C10 (as stated): with FireDamage (a1) and Poison (a2) on one health
\* meter, whichever of the two passes have run so far (at most once each,
\* in either order) the meter holds c0 plus the amounts of exactly those
\* passes, c0 + a1 + a2 after one run of each, and the amounts are the
\* ones the effects were given.
C10_Commute ==
    \A e \in Entities :
        (Matched(e, "FireDamage") /\ Matched(e, "Poison")
            /\ started["FireDamage"] <= 1 /\ started["Poison"] <= 1) =>
            /\ Current(e, "Health") =
                  Current0(e, "Health")
                    + started["FireDamage"] * Amount(e, "FireDamage")
                    + started["Poison"] * Amount(e, "Poison")
            /\ effect[e] = effect0[e]

\* ------------------------------------------------- the constructor alone
InitNew ==
    /\ meter = [e \in Entities |-> [M \in MeterKinds |-> None]]
    /\ effect = [e \in Entities |-> [E \in EffectKinds |-> None]]
    /\ overflow_checks \in BOOLEAN
    /\ panicked = FALSE
    /\ panic_entity = 0
    /\ meter0 = meter
    /\ effect0 = effect
    /\ started = [E \in EffectKinds |-> 0]
    /\ completed = [E \in EffectKinds |-> 0]
    /\ newArg \in Field
    /\ newRet = None

\* A call Meter::new_from_max(newArg).
CallNew ==
    /\ newRet = None
    /\ newRet' = Some(new_from_max(newArg))
    /\ UNCHANGED <<world, newArg>>

NextNew == CallNew

SpecNew == InitNew /\ [][NextNew]_vars

====
